---- MODULE Spec2Model ----
(***************************************************************************)
(* Model of src/index.js: the Express route handlers of the user/address   *)
(* CRUD application and the Sequelize calls they make.                     *)
(*                                                                         *)
(* Strings are tuples of one-character strings.  A request field that was  *)
(* not submitted is Absent (JavaScript undefined); a column holding SQL    *)
(* NULL is Null.  Row ids are positive integers; NoId is a missing id.     *)
(* createdAt is the insertion sequence number of the row in its table.     *)
(***************************************************************************)
EXTENDS Integers, Sequences, FiniteSets, TLC

VARIABLES users, addresses, nextUserId, nextAddressId, fkOnDelete, del, last

vars == <<users, addresses, nextUserId, nextAddressId, fkOnDelete, del, last>>

(* ------------------------------ bounds -------------------------------- *)
MaxUsers == 2
MaxAddresses == 2
MaxInflight == 1

(* ------------------------- program constants -------------------------- *)
DefaultPage == 1
DefaultLimit == 3
MinNameLen == 2
MinStreetLen == 5
MinCityLen == 2

(* --------------------------- JavaScript values ------------------------ *)
Absent == <<"UNDEFINED">>
Null == <<"NULL">>
NoId == 0

WS == {" "}

RECURSIVE TrimStart(_)
TrimStart(s) ==
  IF s = <<>> THEN s
  ELSE IF Head(s) \in WS THEN TrimStart(Tail(s)) ELSE s

RECURSIVE TrimEnd(_)
TrimEnd(s) ==
  IF s = <<>> THEN s
  ELSE IF s[Len(s)] \in WS THEN TrimEnd(SubSeq(s, 1, Len(s) - 1)) ELSE s

\* String.prototype.trim
Trim(s) == TrimEnd(TrimStart(s))

\* truthiness of a submitted string field: undefined and "" are falsy
Truthy(s) == s # Absent /\ s # <<>>

\* truthiness of a submitted id
TruthyId(id) == id # NoId

(* parseInt: leading whitespace, an optional sign, then the longest run of *)
(* decimal digits; NaN (ok = FALSE) when there is no digit.               *)
Digits == <<"0", "1", "2", "3", "4", "5", "6", "7", "8", "9">>
IsDigit(c) == \E i \in 1..10 : Digits[i] = c
DigitVal(c) == (CHOOSE i \in 1..10 : Digits[i] = c) - 1

RECURSIVE DigitRun(_, _, _)
DigitRun(s, acc, seen) ==
  IF s # <<>> /\ IsDigit(Head(s))
  THEN DigitRun(Tail(s), acc * 10 + DigitVal(Head(s)), TRUE)
  ELSE [ok |-> seen, val |-> acc]

ParseInt(s) ==
  IF s = Absent THEN [ok |-> FALSE, val |-> 0]
  ELSE LET t == TrimStart(s) IN
       IF t # <<>> /\ Head(t) = "-"
       THEN LET r == DigitRun(Tail(t), 0, FALSE) IN [ok |-> r.ok, val |-> 0 - r.val]
       ELSE IF t # <<>> /\ Head(t) = "+" THEN DigitRun(Tail(t), 0, FALSE)
       ELSE DigitRun(t, 0, FALSE)

\* parseInt(x) || d : NaN and 0 are falsy
OrDefault(p, d) == IF p.ok /\ p.val # 0 THEN p.val ELSE d

PageOf(query) == OrDefault(ParseInt(query.page), DefaultPage)
LimitOf(query) == OrDefault(ParseInt(query.limit), DefaultLimit)

OffsetOf(page, limit) == (page - 1) * limit

\* Math.ceil(count / limit) for count >= 0 and limit > 0
FloorDiv(count, limit) == count \div limit
CeilDiv(count, limit) == (count + limit - 1) \div limit

Min(a, b) == IF a < b THEN a ELSE b

(* ------------------------------ SQL LIKE ------------------------------ *)
\* pattern p against string s: % matches any run, _ any one character
RECURSIVE Like(_, _)
Like(p, s) ==
  IF p = <<>> THEN s = <<>>
  ELSE IF Head(p) = "%"
       THEN Like(Tail(p), s) \/ (s # <<>> /\ Like(p, Tail(s)))
       ELSE s # <<>> /\ (Head(p) = "_" \/ Head(p) = Head(s)) /\ Like(Tail(p), Tail(s))

\* where = {}; if (q) where.name = {[Op.like]: `%${q}%`};
\* if (newsletter) where.newsletter = newsletter === 'true'
ListWhere(query, u) ==
  /\ Truthy(query.q) => Like(<<"%">> \o query.q \o <<"%">>, u.name)
  /\ Truthy(query.newsletter) => u.newsletter = (query.newsletter = <<"t", "r", "u", "e">>)

\* the rows of a set, ordered by createdAt DESC
RECURSIVE OrderDesc(_)
OrderDesc(rows) ==
  IF rows = {} THEN <<>>
  ELSE LET m == CHOOSE r \in rows : \A o \in rows : o.createdAt <= r.createdAt
       IN <<m>> \o OrderDesc(rows \ {m})

\* User.findAndCountAll({where, order, limit, offset}); MySQL rejects a
\* negative LIMIT or OFFSET
FindAndCountAll(us, query, limit, offset) ==
  LET matching == {u \in us : ListWhere(query, u)} IN
  IF limit < 0 \/ offset < 0
  THEN [fails |-> TRUE, count |-> 0, rows |-> <<>>]
  ELSE [fails |-> FALSE,
        count |-> Cardinality(matching),
        rows |-> IF offset >= Cardinality(matching) THEN <<>>
                 ELSE SubSeq(OrderDesc(matching), offset + 1,
                             Min(offset + limit, Cardinality(matching)))]

(* ------------------------------ responses ----------------------------- *)
\* res.redirect('/')
RedirectRoot == [kind |-> "redirect", to |-> "/", id |-> NoId, idText |-> ""]

\* res.redirect(`/users/edit/${id}`): an undefined id prints as "undefined"
RedirectEdit(id) ==
  [kind |-> "redirect", to |-> "/users/edit/", id |-> id,
   idText |-> IF id = NoId THEN "undefined" ELSE "id"]

\* res.redirect(`/users/edit/${id || ''}`)
RedirectEditOrEmpty(id) ==
  [kind |-> "redirect", to |-> "/users/edit/", id |-> id,
   idText |-> IF TruthyId(id) THEN "id" ELSE ""]

(* ------------------------------ validation ---------------------------- *)
NameInvalidNoTrim(name) == ~Truthy(name) \/ Len(name) < MinNameLen
\* !name || name.trim().length < 2
NameInvalid(name) == ~Truthy(name) \/ Len(Trim(name)) < MinNameLen

AddressInvalidShortStreet(street, city) ==
  \/ ~Truthy(street) \/ Len(Trim(street)) < MinCityLen
  \/ ~Truthy(city) \/ Len(Trim(city)) < MinCityLen
\* !street || street.trim().length < 5 || !city || city.trim().length < 2
AddressInvalid(street, city) ==
  \/ ~Truthy(street) \/ Len(Trim(street)) < MinStreetLen
  \/ ~Truthy(city) \/ Len(Trim(city)) < MinCityLen

\* x ? x.trim() : null
TrimOrNull(s) == IF Truthy(s) THEN Trim(s) ELSE Null

On == <<"o", "n">>

UserDataAnyNewsletter(body) ==
  [name |-> Trim(body.name),
   occupation |-> TrimOrNull(body.occupation),
   newsletter |-> Truthy(body.newsletter)]
\* { name: name.trim(), occupation: occupation ? occupation.trim() : null,
\*   newsletter: newsletter === 'on' }
UserData(body) ==
  [name |-> Trim(body.name),
   occupation |-> TrimOrNull(body.occupation),
   newsletter |-> (body.newsletter = On)]

\* { street: street.trim(), number: number ? number.trim() : null,
\*   city: city.trim(), userId }
AddressData(body) ==
  [street |-> Trim(body.street),
   number |-> TrimOrNull(body.number),
   city |-> Trim(body.city),
   userId |-> body.userId]

(* ------------------------------- storage ------------------------------ *)
\* the row User.create inserts
UserRow(id, data) ==
  [id |-> id, name |-> data.name, occupation |-> data.occupation,
   newsletter |-> data.newsletter, createdAt |-> id]

\* the row Address.create inserts
AddressRow(id, data) ==
  [id |-> id, street |-> data.street, number |-> data.number,
   city |-> data.city, userId |-> data.userId, createdAt |-> id]

UserUpdateAllRows(us, data, id) ==
  {[u EXCEPT !.name = data.name, !.occupation = data.occupation,
             !.newsletter = data.newsletter] : u \in us}
\* User.update(updateData, { where: { id } })
UserUpdateWhereId(us, data, id) ==
  {IF u.id = id
   THEN [u EXCEPT !.name = data.name, !.occupation = data.occupation,
                  !.newsletter = data.newsletter]
   ELSE u : u \in us}

AddressDestroyNothing(as, id) == as
\* Address.destroy({ where: { userId: id } })
AddressDestroyWhereUserId(as, id) == {a \in as : a.userId # id}

AddressDestroyWhereOwner(as, id, userId) == {a \in as : a.userId # userId}
\* Address.destroy({ where: { id } }); the submitted userId is no part of
\* the filter
AddressDestroyWhereId(as, id, userId) == {a \in as : a.id # id}

UserDestroyNothing(us, id) == us
\* User.destroy({ where: { id } })
UserDestroyWhereId(us, id) == {u \in us : u.id # id}

\* a where clause on an undefined value is rejected by the query builder
WhereThrows(id) == id = NoId

ForeignKeyUnchecked(us, userId) == TRUE
\* Address.userId is a required foreign key to User.id
ForeignKeyHolds(us, userId) == \E u \in us : u.id = userId

\* deleting a referenced User row: the foreign key either cascades the
\* delete to the referencing Address rows or rejects it
Referencing(as, id) == {a \in as : a.userId = id}
UserDestroyRejected(us, as, id, mode) ==
  mode = "RESTRICT" /\ (\E u \in us : u.id = id) /\ Referencing(as, id) # {}
CascadeOnUserDestroy(as, id, mode) == as \ Referencing(as, id)

(* -------------------------------- state ------------------------------- *)
Slots == 1..MaxInflight
Idle == [pc |-> "idle", id |-> NoId, start |-> {}, existed |-> FALSE]

\* ids a request may name: those the tables can hold
UserIds == 1..MaxUsers
AddressIds == 1..MaxAddresses

Init ==
  /\ users = {}
  /\ addresses = {}
  /\ nextUserId = 1
  /\ nextAddressId = 1
  /\ fkOnDelete \in {"CASCADE", "RESTRICT"}
  /\ del = [p \in Slots |-> Idle]
  /\ last = [op |-> "startServer"]

(* ------------------------------- GET / -------------------------------- *)
\* ok = FALSE: the storage call fails (connection lost, ...)
List(query, ok) ==
  LET page == PageOf(query)
      limit == LimitOf(query)
      offset == OffsetOf(page, limit)
  IN /\ \E found \in {FindAndCountAll(users, query, limit, offset)} :
        last' = [op |-> "list", req |-> query, threw |-> (~ok \/ found.fails),
                 sql |-> [limit |-> limit, offset |-> offset, count |-> found.count],
                 res |-> IF ok /\ ~found.fails
                         THEN [kind |-> "render", view |-> "home", error |-> "",
                               users |-> found.rows,
                               currentPage |-> page,
                               totalPages |-> CeilDiv(found.count, limit),
                               q |-> query.q, newsletter |-> query.newsletter]
                         ELSE [kind |-> "render", view |-> "home",
                               error |-> "Erro ao carregar usuarios",
                               users |-> <<>>]]
     /\ UNCHANGED <<users, addresses, nextUserId, nextAddressId, fkOnDelete, del>>

(* -------------------------- POST /users/create ------------------------ *)
UsersCreate(body, ok) ==
  /\ IF NameInvalid(body.name)
     THEN /\ last' = [op |-> "usersCreate", req |-> body, threw |-> FALSE,
                      res |-> [kind |-> "render", view |-> "adduser",
                               error |-> "Nome deve ter pelo menos 2 caracteres",
                               formData |-> [name |-> body.name,
                                             occupation |-> body.occupation,
                                             newsletter |-> body.newsletter]]]
          /\ UNCHANGED <<users, nextUserId>>
     ELSE IF ok
     THEN /\ nextUserId <= MaxUsers
          /\ users' = users \cup {UserRow(nextUserId, UserData(body))}
          /\ nextUserId' = nextUserId + 1
          /\ last' = [op |-> "usersCreate", req |-> body, threw |-> FALSE,
                      res |-> RedirectRoot]
     ELSE /\ last' = [op |-> "usersCreate", req |-> body, threw |-> TRUE,
                      res |-> [kind |-> "render", view |-> "adduser",
                               error |-> "Erro ao criar usuario",
                               formData |-> body]]
          /\ UNCHANGED <<users, nextUserId>>
  /\ UNCHANGED <<addresses, nextAddressId, fkOnDelete, del>>

(* -------------------------- POST /users/update ------------------------ *)
UsersUpdate(body, ok) ==
  /\ IF NameInvalid(body.name)
     THEN /\ last' = [op |-> "usersUpdate", req |-> body, threw |-> FALSE,
                      res |-> RedirectEdit(body.id)]
          /\ UNCHANGED users
     ELSE IF ok /\ ~WhereThrows(body.id)
     THEN /\ users' = UserUpdateWhereId(users, UserData(body), body.id)
          /\ last' = [op |-> "usersUpdate", req |-> body, threw |-> FALSE,
                      res |-> RedirectRoot]
     ELSE /\ last' = [op |-> "usersUpdate", req |-> body, threw |-> TRUE,
                      res |-> RedirectEditOrEmpty(body.id)]
          /\ UNCHANGED users
  /\ UNCHANGED <<addresses, nextUserId, nextAddressId, fkOnDelete, del>>

(* ------------------------ POST /users/delete/:id ---------------------- *)
\* up to the first await: Address.destroy({ where: { userId: id } })
UsersDeleteAddresses(p, id, ok) ==
  /\ del[p].pc = "idle"
  /\ LET start == {a.id : a \in Referencing(addresses, id)}
         existed == \E u \in users : u.id = id
     IN IF ok
        THEN /\ addresses' = AddressDestroyWhereUserId(addresses, id)
             /\ del' = [del EXCEPT ![p] = [pc |-> "userDestroy", id |-> id,
                                           start |-> start, existed |-> existed]]
             /\ last' = [op |-> "usersDelete.await", req |-> [id |-> id]]
        ELSE /\ last' = [op |-> "usersDelete", req |-> [id |-> id],
                         res |-> RedirectRoot, failedAt |-> "addresses",
                         start |-> start, existed |-> existed]
             /\ UNCHANGED <<addresses, del>>
  /\ UNCHANGED <<users, nextUserId, nextAddressId, fkOnDelete>>

\* the second await: User.destroy({ where: { id } }), then the redirect
UsersDeleteUser(p, ok) ==
  /\ del[p].pc = "userDestroy"
  /\ LET id == del[p].id IN
     IF ok /\ ~UserDestroyRejected(users, addresses, id, fkOnDelete)
     THEN /\ users' = UserDestroyWhereId(users, id)
          /\ addresses' = CascadeOnUserDestroy(addresses, id, fkOnDelete)
          /\ last' = [op |-> "usersDelete", req |-> [id |-> id],
                      res |-> RedirectRoot, failedAt |-> "",
                      start |-> del[p].start, existed |-> del[p].existed]
     ELSE /\ last' = [op |-> "usersDelete", req |-> [id |-> id],
                      res |-> RedirectRoot, failedAt |-> "user",
                      start |-> del[p].start, existed |-> del[p].existed]
          /\ UNCHANGED <<users, addresses>>
  /\ del' = [del EXCEPT ![p] = Idle]
  /\ UNCHANGED <<nextUserId, nextAddressId, fkOnDelete>>

(* ------------------------- POST /address/create ----------------------- *)
AddressCreate(body, ok) ==
  /\ IF AddressInvalid(body.street, body.city)
     THEN /\ last' = [op |-> "addressCreate", req |-> body, threw |-> FALSE,
                      res |-> RedirectEdit(body.userId)]
          /\ UNCHANGED <<addresses, nextAddressId>>
     ELSE IF ok /\ ForeignKeyHolds(users, body.userId)
     THEN /\ nextAddressId <= MaxAddresses
          /\ addresses' = addresses \cup {AddressRow(nextAddressId, AddressData(body))}
          /\ nextAddressId' = nextAddressId + 1
          /\ last' = [op |-> "addressCreate", req |-> body, threw |-> FALSE,
                      res |-> RedirectEdit(body.userId)]
     ELSE /\ last' = [op |-> "addressCreate", req |-> body, threw |-> TRUE,
                      res |-> RedirectEditOrEmpty(body.userId)]
          /\ UNCHANGED <<addresses, nextAddressId>>
  /\ UNCHANGED <<users, nextUserId, fkOnDelete, del>>

(* ------------------------- POST /address/delete ----------------------- *)
AddressDelete(body, ok) ==
  /\ IF ok /\ ~WhereThrows(body.id)
     THEN /\ addresses' = AddressDestroyWhereId(addresses, body.id, body.userId)
          /\ last' = [op |-> "addressDelete", req |-> body, threw |-> FALSE,
                      res |-> IF TruthyId(body.userId)
                              THEN RedirectEdit(body.userId) ELSE RedirectRoot]
     ELSE /\ last' = [op |-> "addressDelete", req |-> body, threw |-> TRUE,
                      res |-> RedirectRoot]
          /\ UNCHANGED addresses
  /\ UNCHANGED <<users, nextUserId, nextAddressId, fkOnDelete, del>>

(* ------------------------------ startServer --------------------------- *)
\* the process stops and is started again: the handlers that were waiting
\* on the storage are gone, the tables are as they were
Restart ==
  /\ del' = [p \in Slots |-> Idle]
  /\ last' = [op |-> "startServer"]
  /\ UNCHANGED <<users, addresses, nextUserId, nextAddressId, fkOnDelete>>

(* --------------------------- request inputs --------------------------- *)
True == <<"t", "r", "u", "e">>
NameInputs == {Absent, <<>>, <<" ", "a">>, <<" ", "a", "b", " ">>, <<"c", "d">>}
OccupationInputs == {Absent, <<>>, <<" ", "x", " ">>}
NewsletterInputs == {Absent, On, True}
StreetInputs == {Absent, <<"S", "t">>, <<" ", "a", "b", "c", "d", " ">>,
                 <<" ", "a", "b", "c", "d", "e", " ">>}
NumberInputs == {Absent, <<" ", "7">>}
CityInputs == {Absent, <<" ", "a", " ">>, <<" ", "s", "p", " ">>}
PageInputs == {Absent, <<"2">>, <<"-", "1">>}
LimitInputs == {Absent, <<"x">>, <<"1">>, <<" ", "2", "x">>}
QInputs == {Absent, <<"b">>, <<"_">>}
NewsletterFilters == {Absent, True, On}

\* address forms in which the street or the city is a valid one
AddressBodies ==
  {b \in [userId : UserIds \cup {NoId}, street : StreetInputs,
          number : NumberInputs, city : CityInputs] :
     \/ b.street = <<" ", "a", "b", "c", "d", "e", " ">>
     \/ b.city = <<" ", "s", "p", " ">>}

PlainUser == [name |-> <<"c", "d">>, occupation |-> Absent, newsletter |-> Absent]
PlainAddress(userId) ==
  [street |-> <<"a", "b", "c", "d", "e">>, number |-> Absent,
   city |-> <<"s", "p">>, userId |-> userId]

(* ---------------------------- specifications -------------------------- *)
\* the lifecycle of users and addresses, requests interleaved
Next ==
  \/ \E ok \in BOOLEAN : UsersCreate(PlainUser, ok)
  \/ \E p \in Slots, id \in UserIds, ok \in BOOLEAN : UsersDeleteAddresses(p, id, ok)
  \/ \E p \in Slots, ok \in BOOLEAN : UsersDeleteUser(p, ok)
  \/ \E userId \in UserIds \cup {NoId}, ok \in BOOLEAN :
       AddressCreate(PlainAddress(userId), ok)
  \/ \E id \in AddressIds, ok \in BOOLEAN :
       AddressDelete([id |-> id, userId |-> NoId], ok)
  \/ Restart

Spec == Init /\ [][Next]_vars

\* the user forms
NextUsers ==
  \/ \E body \in [name : NameInputs, occupation : OccupationInputs,
                  newsletter : NewsletterInputs], ok \in BOOLEAN :
       UsersCreate(body, ok)
  \/ \E body \in [id : UserIds \cup {NoId},
                  name : {<<>>, <<" ", "a">>, <<" ", "a", "b", " ">>},
                  occupation : {Absent, <<" ", "x", " ">>}, newsletter : {Absent, On}],
        ok \in BOOLEAN :
       UsersUpdate(body, ok)

SpecUsers == Init /\ [][NextUsers]_vars

\* the address forms
NextAddresses ==
  \/ \E ok \in BOOLEAN : UsersCreate(PlainUser, ok)
  \/ \E body \in AddressBodies, ok \in BOOLEAN : AddressCreate(body, ok)
  \/ \E id \in AddressIds \cup {NoId}, userId \in UserIds \cup {NoId}, ok \in BOOLEAN :
       AddressDelete([id |-> id, userId |-> userId], ok)

SpecAddresses == Init /\ [][NextAddresses]_vars

\* the listing
NextList ==
  \/ \E name \in {<<"a", "b">>, <<"c", "d">>}, newsletter \in {Absent, On} :
       UsersCreate([name |-> name, occupation |-> Absent, newsletter |-> newsletter], TRUE)
  \/ \E query \in [page : PageInputs, limit : LimitInputs, q : QInputs,
                   newsletter : NewsletterFilters], ok \in BOOLEAN :
       List(query, ok)

SpecList == Init /\ [][NextList]_vars

(* ------------------------------- claims ------------------------------- *)
UserExists(us, id) == \E u \in us : u.id = id
NameTooShort(name) == name = Absent \/ Len(Trim(name)) < MinNameLen
EditPageOf(res, id) == res.kind = "redirect" /\ res.to = "/users/edit/" /\ res.id = id

C3_AddressesBeforeUser ==
  [][/\ \A p \in Slots :
          del'[p].pc = "userDestroy"
            => \A a \in addresses' : a.id \notin del'[p].start
     /\ last'.op = "usersDelete"
          => /\ ~(/\ ~UserExists(users', last'.req.id)
                  /\ \E a \in addresses' : a.id \in last'.start)
             /\ last'.failedAt = "addresses"
                  => users' = users /\ addresses' = addresses
             /\ last'.failedAt = "user"
                  => /\ users' = users
                     /\ \A a \in addresses' : a.id \notin last'.start
     /\ last'.op = "startServer"
          => users' = users /\ addresses' = addresses]_vars

\* the user step failed after the addresses of an existing user were removed
C3_Witness ==
  /\ last.op = "usersDelete"
  /\ last.failedAt = "user"
  /\ last.existed
  /\ last.start # {}
  /\ UserExists(users, last.req.id)

\* C4: a user create whose name is absent or trims to fewer than 2
\* characters persists nothing and renders the create form with the
\* validation error and the submitted values as submitted.
C4_CreateRejectsShortName ==
  [][(last'.op = "usersCreate" /\ NameTooShort(last'.req.name))
       => /\ users' = users
          /\ last'.res.kind = "render"
          /\ last'.res.view = "adduser"
          /\ last'.res.error = "Nome deve ter pelo menos 2 caracteres"
          /\ last'.res.formData = [name |-> last'.req.name,
                                   occupation |-> last'.req.occupation,
                                   newsletter |-> last'.req.newsletter]]_vars

\* a name of two characters that trims to one was rejected with users stored
C4_Witness ==
  /\ last.op = "usersCreate"
  /\ last.req.name = <<" ", "a">>
  /\ last.res.kind = "render"
  /\ users # {}

\* C5: a user create with a name of trimmed length >= 2 whose storage call
\* succeeds persists exactly one new row, with the trimmed name, the trimmed
\* occupation or null when it is absent or empty, and newsletter true
\* exactly for "on", and redirects to "/".
C5_CreatePersistsTrimmed ==
  [][(last'.op = "usersCreate" /\ ~NameTooShort(last'.req.name) /\ ~last'.threw)
       => /\ \E row \in users' :
               /\ users' = users \cup {row}
               /\ ~UserExists(users, row.id)
               /\ row.name = Trim(last'.req.name)
               /\ row.occupation = IF last'.req.occupation \in {Absent, <<>>}
                                   THEN Null ELSE Trim(last'.req.occupation)
               /\ row.newsletter = (last'.req.newsletter = <<"o", "n">>)
          /\ last'.res = [kind |-> "redirect", to |-> "/", id |-> NoId, idText |-> ""]]_vars

\* " ab " with newsletter "true" was persisted as "ab", not subscribed
C5_Witness ==
  /\ last.op = "usersCreate"
  /\ last.req.name = <<" ", "a", "b", " ">>
  /\ last.req.newsletter = True
  /\ last.res.kind = "redirect"
  /\ \E u \in users : u.name = <<"a", "b">> /\ ~u.newsletter

\* C6: a user update with a missing or too short name changes no row and
\* redirects to the edit page of the submitted id; with a valid name it
\* changes at most the row with the submitted id, adds and removes no row,
\* and, when the storage call succeeds, redirects to "/".
C6_UpdateFrame ==
  [][last'.op = "usersUpdate"
       => IF NameTooShort(last'.req.name)
          THEN users' = users /\ EditPageOf(last'.res, last'.req.id)
          ELSE /\ \A u \in users : u.id # last'.req.id => u \in users'
               /\ {u.id : u \in users'} = {u.id : u \in users}
               /\ Cardinality(users') = Cardinality(users)
               /\ ~last'.threw => last'.res.kind = "redirect" /\ last'.res.to = "/"]_vars

\* one of two users was renamed and the other kept its name
C6_Witness ==
  /\ last.op = "usersUpdate"
  /\ last.res.to = "/"
  /\ \E u, v \in users :
       /\ u.id = last.req.id
       /\ v.id # u.id
       /\ u.name = <<"a", "b">>
       /\ v.name = <<"c", "d">>

AddressTooShort(street, city) ==
  \/ street = Absent \/ Len(Trim(street)) < MinStreetLen
  \/ city = Absent \/ Len(Trim(city)) < MinCityLen

\* C7: an address create persists nothing when street is absent or trims to
\* fewer than 5 characters or city is absent or trims to fewer than 2, and
\* then redirects to the edit page of the submitted userId; otherwise, when
\* the storage call succeeds, it persists exactly one new row with the
\* trimmed street, the trimmed-or-null number, the trimmed city and the
\* submitted userId.
C7_AddressCreateValidation ==
  [][last'.op = "addressCreate"
       => IF AddressTooShort(last'.req.street, last'.req.city)
          THEN addresses' = addresses /\ EditPageOf(last'.res, last'.req.userId)
          ELSE IF last'.threw
          THEN addresses' = addresses
          ELSE \E row \in addresses' :
                 /\ addresses' = addresses \cup {row}
                 /\ \A a \in addresses : a.id # row.id
                 /\ row.street = Trim(last'.req.street)
                 /\ row.number = IF last'.req.number \in {Absent, <<>>}
                                 THEN Null ELSE Trim(last'.req.number)
                 /\ row.city = Trim(last'.req.city)
                 /\ row.userId = last'.req.userId]_vars

\* street "St" was rejected while an address with a number is stored
C7_Witness ==
  /\ last.op = "addressCreate"
  /\ last.req.street = <<"S", "t">>
  /\ last.req.city = <<" ", "s", "p", " ">>
  /\ \E a \in addresses : a.street = <<"a", "b", "c", "d", "e">> /\ a.number = <<"7">>

NoDigit(s) == s = Absent \/ \A i \in 1..Len(s) : ~IsDigit(s[i])

\* C8: GET / uses page 1 and limit 3 when the parameter is absent or holds
\* no number, queries with offset = (page-1)*limit, and on success renders
\* at most limit rows, that page, and totalPages = ceil(count/limit), count
\* being the number of rows that match the filter.
C8_Pagination ==
  (last.op = "list" /\ ~last.threw)
    => /\ NoDigit(last.req.page) => last.res.currentPage = DefaultPage
       /\ NoDigit(last.req.limit) => last.sql.limit = DefaultLimit
       /\ last.sql.offset = (last.res.currentPage - 1) * last.sql.limit
       /\ Len(last.res.users) <= last.sql.limit
       /\ last.sql.count = Cardinality({u \in users : ListWhere(last.req, u)})
       /\ last.res.totalPages * last.sql.limit >= last.sql.count
       /\ (last.res.totalPages - 1) * last.sql.limit < last.sql.count

\* the second of two pages of one row each was rendered
C8_Witness ==
  /\ last.op = "list"
  /\ ~last.threw
  /\ last.res.currentPage = 2
  /\ last.res.totalPages = 2
  /\ Len(last.res.users) = 1
  /\ last.sql.limit = 1

Contains(s, sub) ==
  \E i \in 1..(Len(s) - Len(sub) + 1) : SubSeq(s, i, i + Len(sub) - 1) = sub

\* C9: GET / returns only users that satisfy every supplied filter: with q,
\* only users whose name contains q as a substring; with newsletter, only
\* users whose newsletter field equals (newsletter = "true"); with no
\* filter, every user counts.
C9_FiltersAreSubstringAndFlag ==
  (last.op = "list" /\ ~last.threw)
    => /\ \A i \in 1..Len(last.res.users) :
            /\ Truthy(last.req.q) => Contains(last.res.users[i].name, last.req.q)
            /\ Truthy(last.req.newsletter)
                 => last.res.users[i].newsletter = (last.req.newsletter = True)
       /\ (~Truthy(last.req.q) /\ ~Truthy(last.req.newsletter))
            => last.sql.count = Cardinality(users)

\* C10: an address delete removes exactly the row with the submitted id,
\* whatever userId is submitted, changes no other Address row and no User
\* row, and redirects to the edit page of userId when one was submitted and
\* to "/" when none was or when the storage call failed.
C10_AddressDeleteFrame ==
  [][last'.op = "addressDelete"
       => /\ users' = users
          /\ IF last'.threw
             THEN /\ addresses' = addresses
                  /\ last'.res.kind = "redirect" /\ last'.res.to = "/"
             ELSE /\ addresses' = {a \in addresses : a.id # last'.req.id}
                  /\ IF last'.req.userId # NoId
                     THEN EditPageOf(last'.res, last'.req.userId)
                     ELSE last'.res.kind = "redirect" /\ last'.res.to = "/"]_vars

\* address 1, owned by user 1, was deleted by a request naming user 2, who
\* never existed, and address 2 remains
C10_Witness ==
  /\ last.op = "addressDelete"
  /\ ~last.threw
  /\ last.req.id = 1
  /\ last.req.userId = 2
  /\ nextUserId = 2
  /\ nextAddressId > 2
  /\ \A a \in addresses : a.id # 1
  /\ addresses # {}

====
